---- MODULE Spec2Model ----
(***************************************************************************)
(* A model of cgpt's API module (src/src/cgpt/api.py): the endpoint        *)
(* resolver, the request builder, the non-streaming extractors and the     *)
(* streaming normalizer of ask_stream; and of its configuration module     *)
(* (src/src/cgpt/config.py): the TOML writer, load_config, save_config,    *)
(* update_config and the atomic write.                                     *)
(*                                                                         *)
(* Python strings are TLA+ strings; TLC evaluates Len, SubSeq and \o on    *)
(* them, so prefixes, trimming and JSON text are computed on characters.   *)
(***************************************************************************)
EXTENDS Integers, Sequences, FiniteSets, TLC

(***************************************************************************)
(* Python values                                                           *)
(***************************************************************************)

\* Python's None, as the value of an Optional[str] and of an absent field.
None == [k |-> "None"]

\* A str held in an Optional[str].
Some(s) == [k |-> "str", v |-> s]

\* An exception leaving the function that was called.
Raised(e) == [k |-> "raise", v |-> e]

(***************************************************************************)
(* str methods used by the module                                          *)
(***************************************************************************)

\* s[i-1] in Python's indexing, "" beyond the end.
Char(s, i) == IF i \in 1..Len(s) THEN SubSeq(s, i, i) ELSE ""

\* s[n:]
DropFirst(s, n) == IF n >= Len(s) THEN "" ELSE SubSeq(s, n + 1, Len(s))

\* s.startswith(p)
StartsWith(s, p) == Len(s) >= Len(p) /\ SubSeq(s, 1, Len(p)) = p

\* s.endswith(p)
EndsWith(s, p) == Len(s) >= Len(p) /\ SubSeq(s, Len(s) - Len(p) + 1, Len(s)) = p

\* The ASCII characters str.strip() removes.
Whitespace == {" ", "\t", "\n", "\r", "\f"}

\* s.strip()
Strip(s) ==
    LET keep == {i \in 1..Len(s) : Char(s, i) \notin Whitespace}
    IN  IF keep = {} THEN ""
        ELSE LET lo == CHOOSE i \in keep : \A j \in keep : i <= j
                 hi == CHOOSE i \in keep : \A j \in keep : i >= j
             IN  SubSeq(s, lo, hi)

\* s.rstrip("/")
RStripSlash(s) ==
    LET keep == {i \in 1..Len(s) : Char(s, i) # "/"}
    IN  IF keep = {} THEN ""
        ELSE SubSeq(s, 1, CHOOSE i \in keep : \A j \in keep : i >= j)

UpperLetters == "ABCDEFGHIJKLMNOPQRSTUVWXYZ"
LowerLetters == "abcdefghijklmnopqrstuvwxyz"

LowerChar(c) ==
    IF \E i \in 1..Len(UpperLetters) : Char(UpperLetters, i) = c
    THEN Char(LowerLetters, CHOOSE i \in 1..Len(UpperLetters) : Char(UpperLetters, i) = c)
    ELSE c

RECURSIVE LowerFrom(_, _)
LowerFrom(s, i) == IF i > Len(s) THEN "" ELSE LowerChar(Char(s, i)) \o LowerFrom(s, i + 1)

\* s.lower()
Lower(s) == LowerFrom(s, 1)

(***************************************************************************)
(* JSON values as json.loads returns them.  A dict is the sequence of its  *)
(* items in insertion order, each key once.                                *)
(***************************************************************************)

JNull == [t |-> "null", v |-> 0]
JBool(b) == [t |-> "bool", v |-> b]
JNum(n) == [t |-> "num", v |-> n]
JStr(s) == [t |-> "str", v |-> s]
JArr(xs) == [t |-> "arr", v |-> xs]
JObj(items) == [t |-> "obj", v |-> items]

Item(key, val) == [key |-> key, val |-> val]

HasKey(items, key) == \E i \in 1..Len(items) : items[i].key = key

\* d[key] = val on a dict's items.
Put(items, key, val) ==
    IF HasKey(items, key)
    THEN [i \in 1..Len(items) |-> IF items[i].key = key THEN Item(key, val) ELSE items[i]]
    ELSE Append(items, Item(key, val))

\* isinstance(x, dict), isinstance(x, str), isinstance(x, list)
IsDict(x) == x.t = "obj"
IsStr(x) == x.t = "str"
IsList(x) == x.t = "arr"

\* d.get(key) on a dict: the value, or None (JSON null decodes to None too).
Get(d, key) ==
    IF HasKey(d.v, key)
    THEN d.v[CHOOSE i \in 1..Len(d.v) : d.v[i].key = key].val
    ELSE JNull

\* bool(x): what `x or {}` tests.
Truthy(x) ==
    CASE x.t = "null" -> FALSE
      [] x.t = "bool" -> x.v
      [] x.t = "num" -> x.v # 0
      [] x.t = "str" -> x.v # ""
      [] x.t = "arr" -> Len(x.v) > 0
      [] x.t = "obj" -> Len(x.v) > 0

\* x or {}
OrEmptyDict(x) == IF Truthy(x) THEN x ELSE JObj(<<>>)

(***************************************************************************)
(* json.loads and json.dumps, on the JSON this model's inputs use:         *)
(* objects, arrays, strings with the escapes \" \\ \/ \n \t \r, integers,  *)
(* true, false and null.  Fractions, exponents and \u escapes occur in no  *)
(* input of the model.                                                     *)
(***************************************************************************)

\* A successful parse of a value ending before position i, and a failed one.
Parsed(val, i) == [ok |-> TRUE, v |-> val, i |-> i]
Failed == [ok |-> FALSE, v |-> JNull, i |-> 0]

JsonSpace == {" ", "\t", "\n", "\r"}
Digits == "0123456789"

IsDigit(c) == \E d \in 1..Len(Digits) : Char(Digits, d) = c
DigitValue(c) == (CHOOSE d \in 1..Len(Digits) : Char(Digits, d) = c) - 1

RECURSIVE SkipSpace(_, _)
SkipSpace(s, i) == IF Char(s, i) \in JsonSpace THEN SkipSpace(s, i + 1) ELSE i

\* The characters of a string literal from position i, after its opening quote.
RECURSIVE StringBody(_, _, _)
StringBody(s, i, acc) ==
    LET c == Char(s, i)
        e == Char(s, i + 1)
    IN  CASE c = "" -> Failed
          [] c = "\"" -> Parsed(JStr(acc), i + 1)
          [] c \in {"\n", "\t", "\r", "\f"} -> Failed
          [] c = "\\" ->
                CASE e = "\"" -> StringBody(s, i + 2, acc \o "\"")
                  [] e = "\\" -> StringBody(s, i + 2, acc \o "\\")
                  [] e = "/" -> StringBody(s, i + 2, acc \o "/")
                  [] e = "n" -> StringBody(s, i + 2, acc \o "\n")
                  [] e = "t" -> StringBody(s, i + 2, acc \o "\t")
                  [] e = "r" -> StringBody(s, i + 2, acc \o "\r")
                  [] OTHER -> Failed
          [] OTHER -> StringBody(s, i + 1, acc \o c)

RECURSIVE DigitRun(_, _, _)
DigitRun(s, i, acc) ==
    IF IsDigit(Char(s, i)) THEN DigitRun(s, i + 1, acc * 10 + DigitValue(Char(s, i)))
    ELSE Parsed(JNum(acc), i)

\* An integer: 0, or a nonzero digit followed by digits.
Unsigned(s, i) ==
    CASE Char(s, i) = "0" -> Parsed(JNum(0), i + 1)
      [] IsDigit(Char(s, i)) -> DigitRun(s, i, 0)
      [] OTHER -> Failed

Number(s, i) ==
    IF Char(s, i) = "-"
    THEN LET r == Unsigned(s, i + 1)
         IN  IF r.ok THEN Parsed(JNum(0 - r.v.v), r.i) ELSE Failed
    ELSE Unsigned(s, i)

Literal(s, i, word, val) ==
    IF i + Len(word) - 1 <= Len(s) /\ SubSeq(s, i, i + Len(word) - 1) = word
    THEN Parsed(val, i + Len(word))
    ELSE Failed

RECURSIVE Value(_, _)
RECURSIVE ArrayItems(_, _, _)
RECURSIVE ObjectItems(_, _, _)

\* The elements of an array from position i, which holds the first of them.
ArrayItems(s, i, acc) ==
    LET r == Value(s, i)
        j == SkipSpace(s, r.i)
    IN  CASE ~r.ok -> Failed
          [] Char(s, j) = "," -> ArrayItems(s, SkipSpace(s, j + 1), Append(acc, r.v))
          [] Char(s, j) = "]" -> Parsed(JArr(Append(acc, r.v)), j + 1)
          [] OTHER -> Failed

\* The members of an object from position i, which holds the first key's quote.
ObjectItems(s, i, acc) ==
    LET key == IF Char(s, i) = "\"" THEN StringBody(s, i + 1, "") ELSE Failed
        c == SkipSpace(s, key.i)
        r == IF key.ok /\ Char(s, c) = ":" THEN Value(s, SkipSpace(s, c + 1)) ELSE Failed
        j == SkipSpace(s, r.i)
    IN  CASE ~r.ok -> Failed
          [] Char(s, j) = "," -> ObjectItems(s, SkipSpace(s, j + 1), Put(acc, key.v.v, r.v))
          [] Char(s, j) = "}" -> Parsed(JObj(Put(acc, key.v.v, r.v)), j + 1)
          [] OTHER -> Failed

Value(s, i) ==
    LET c == Char(s, i)
        j == SkipSpace(s, i + 1)
    IN  CASE c = "{" -> IF Char(s, j) = "}" THEN Parsed(JObj(<<>>), j + 1)
                        ELSE ObjectItems(s, j, <<>>)
          [] c = "[" -> IF Char(s, j) = "]" THEN Parsed(JArr(<<>>), j + 1)
                        ELSE ArrayItems(s, j, <<>>)
          [] c = "\"" -> StringBody(s, i + 1, "")
          [] c = "t" -> Literal(s, i, "true", JBool(TRUE))
          [] c = "f" -> Literal(s, i, "false", JBool(FALSE))
          [] c = "n" -> Literal(s, i, "null", JNull)
          [] OTHER -> Number(s, i)

\* json.loads(s): the value, or a failed parse where Python raises ValueError.
json_loads(s) ==
    LET r == Value(s, SkipSpace(s, 1))
    IN  IF r.ok /\ SkipSpace(s, r.i) > Len(s) THEN r ELSE Failed

RECURSIVE Escaped(_, _)
Escaped(s, i) ==
    LET c == Char(s, i)
    IN  IF i > Len(s) THEN ""
        ELSE (CASE c = "\"" -> "\\\""
                [] c = "\\" -> "\\\\"
                [] c = "\n" -> "\\n"
                [] c = "\t" -> "\\t"
                [] c = "\r" -> "\\r"
                [] OTHER -> c) \o Escaped(s, i + 1)

RECURSIVE NatText(_)
NatText(n) == IF n < 10 THEN Char(Digits, n + 1) ELSE NatText(n \div 10) \o Char(Digits, (n % 10) + 1)

RECURSIVE json_dumps(_)
RECURSIVE DumpArray(_, _)
RECURSIVE DumpItems(_, _)

DumpArray(xs, i) ==
    IF i > Len(xs) THEN ""
    ELSE (IF i > 1 THEN ", " ELSE "") \o json_dumps(xs[i]) \o DumpArray(xs, i + 1)

DumpItems(items, i) ==
    IF i > Len(items) THEN ""
    ELSE (IF i > 1 THEN ", " ELSE "") \o "\"" \o Escaped(items[i].key, 1) \o "\": "
         \o json_dumps(items[i].val) \o DumpItems(items, i + 1)

\* json.dumps(x), with the default separators ", " and ": ".
json_dumps(x) ==
    CASE x.t = "null" -> "null"
      [] x.t = "bool" -> IF x.v THEN "true" ELSE "false"
      [] x.t = "num" -> IF x.v < 0 THEN "-" \o NatText(0 - x.v) ELSE NatText(x.v)
      [] x.t = "str" -> "\"" \o Escaped(x.v, 1) \o "\""
      [] x.t = "arr" -> "[" \o DumpArray(x.v, 1) \o "]"
      [] x.t = "obj" -> "{" \o DumpItems(x.v, 1) \o "}"

(***************************************************************************)
(* The functions of api.py                                                 *)
(***************************************************************************)

DEFAULT_BASE_URL == "https://api.openai.com/v1"
DEFAULT_TIMEOUT == 300

\* base_url or DEFAULT_BASE_URL: None and "" are both falsy.
BaseOrDefault(base_url) ==
    IF base_url.k = "None" THEN DEFAULT_BASE_URL
    ELSE IF base_url.v = "" THEN DEFAULT_BASE_URL
    ELSE base_url.v

\* endpoint_for without the rstrip("/").
endpoint_for_unstripped(mode, base_url) ==
    LET root == BaseOrDefault(base_url)
    IN  IF Lower(mode) = "chat" THEN root \o "/chat/completions"
        ELSE root \o "/responses"

endpoint_for(mode, base_url) ==
    LET root == RStripSlash(BaseOrDefault(base_url))
    IN  IF Lower(mode) = "chat" THEN root \o "/chat/completions"
        ELSE root \o "/responses"

auth_headers(api_key) ==
    <<Item("Authorization", "Bearer " \o api_key), Item("Content-Type", "applications/json")>>

\* choices[0].message.content of a Chat Completions document.
extract_chat_text(data) ==
    IF ~IsDict(data) THEN Raised("AttributeError")
    ELSE LET choices == Get(data, "choices")
         IN  IF IsList(choices) /\ Truthy(choices) /\ IsDict(choices.v[1])
             THEN LET msg == OrEmptyDict(Get(choices.v[1], "message"))
                  IN  IF ~IsDict(msg) THEN Raised("AttributeError")
                      ELSE IF IsStr(Get(msg, "content")) THEN Some(Get(msg, "content").v)
                      ELSE None
             ELSE None

\* The delta of one event, tried as a Responses delta, then as a Chat delta,
\* then as the flat field "output.text".
extract_responses_text(event) ==
    IF ~IsDict(event) THEN Raised("AttributeError")
    ELSE LET etype == Get(event, "type")
             delta == Get(event, "delta")
             choices == Get(event, "choices")
             first == choices.v[1]
             inner == OrEmptyDict(Get(first, "delta"))
             out_text == Get(event, "output.text")
         IN  IF IsStr(etype) /\ EndsWith(etype.v, "output_text.delta") /\ IsStr(delta)
             THEN Some(delta.v)
             ELSE IF IsList(choices) /\ Truthy(choices) /\ ~IsDict(first)
             THEN Raised("AttributeError")
             ELSE IF IsList(choices) /\ Truthy(choices) /\ ~IsDict(inner)
             THEN Raised("AttributeError")
             ELSE IF IsList(choices) /\ Truthy(choices) /\ IsStr(Get(inner, "content"))
             THEN Some(Get(inner, "content").v)
             ELSE IF IsStr(out_text) THEN Some(out_text.v)
             ELSE None

\* The delta of one event, tried as a Responses delta, then as a Chat delta,
\* then as the flat field "output_text".
extract_stream_delta(event) ==
    IF ~IsDict(event) THEN Raised("AttributeError")
    ELSE LET etype == Get(event, "type")
             delta == Get(event, "delta")
             choices == Get(event, "choices")
             first == choices.v[1]
             inner == OrEmptyDict(Get(first, "delta"))
             out_text == Get(event, "output_text")
         IN  IF IsStr(etype) /\ EndsWith(etype.v, "output_text.delta") /\ IsStr(delta)
             THEN Some(delta.v)
             ELSE IF IsList(choices) /\ Truthy(choices) /\ ~IsDict(first)
             THEN Raised("AttributeError")
             ELSE IF IsList(choices) /\ Truthy(choices) /\ ~IsDict(inner)
             THEN Raised("AttributeError")
             ELSE IF IsList(choices) /\ Truthy(choices) /\ IsStr(Get(inner, "content"))
             THEN Some(Get(inner, "content").v)
             ELSE IF IsStr(out_text) THEN Some(out_text.v)
             ELSE None

\* Payload comparing the mode to "chat" without lower().
PayloadCaseSensitive(mode, model, prompt, stream) ==
    LET head == <<Item("model", JStr(model))>>
        body == IF mode = "chat"
                THEN <<Item("messages", JArr(<<JObj(<<Item("role", JStr("user")),
                                                     Item("content", JStr(prompt))>>)>>))>>
                ELSE <<Item("input", JStr(prompt))>>
        tail == IF stream THEN <<Item("stream", JBool(TRUE))>> ELSE <<>>
    IN  JObj(head \o body \o tail)

\* The payload either operation builds: `messages` in chat mode, `input`
\* otherwise, and `stream` in ask_stream only.
Payload(mode, model, prompt, stream) ==
    LET head == <<Item("model", JStr(model))>>
        body == IF Lower(mode) = "chat"
                THEN <<Item("messages", JArr(<<JObj(<<Item("role", JStr("user")),
                                                     Item("content", JStr(prompt))>>)>>))>>
                ELSE <<Item("input", JStr(prompt))>>
        tail == IF stream THEN <<Item("stream", JBool(TRUE))>> ELSE <<>>
    IN  JObj(head \o body \o tail)

\* The arguments of requests.post.
Request(a, stream) ==
    [url |-> endpoint_for(a.mode, a.base_url),
     headers |-> auth_headers(a.api_key),
     data |-> json_dumps(Payload(a.mode, a.model, a.prompt, stream)),
     stream |-> stream,
     timeout |-> DEFAULT_TIMEOUT]

\* The line ask_stream works on: raw[5:].strip() after "data:", else raw.strip().
StripLine(raw) == IF StartsWith(raw, "data:") THEN Strip(DropFirst(raw, 5)) ELSE Strip(raw)

\* The choice of extractor in ask_once.
ExtractOnce(model, data) ==
    IF model = "chat" THEN extract_chat_text(data) ELSE extract_responses_text(data)

\* resp.raise_for_status() raises on 4xx and 5xx.
IsErrorStatus(code) == code >= 400 /\ code < 600

(***************************************************************************)
(* Inputs                                                                  *)
(***************************************************************************)

\* The longest response body of a streaming call, in lines.
MaxLines == 2

Modes == {"chat", "Chat", "responses", "completions"}
Models == {"gpt-4o", "chat"}
Prompts == {"", "say \"hi\"\nnow"}
BaseUrls == {None, Some(""), Some("http://h/v1"), Some("http://h/v1/"),
             Some("http://h/v1//"), Some("/")}
ApiKeys == {"sk-1"}

Call(mode, model, prompt, base_url, api_key) ==
    [mode |-> mode, model |-> model, prompt |-> prompt, base_url |-> base_url,
     api_key |-> api_key]

\* The calls of ask_once: every mode, model, prompt and base URL.
OnceCalls ==
    {Call(m, md, p, b, k) : m \in Modes, md \in Models, p \in Prompts, b \in BaseUrls,
                            k \in ApiKeys}

\* The calls of ask_stream: both payload shapes, with the prompt that needs
\* escaping; what follows the request reads none of the arguments.
StreamCalls ==
    {Call(m, "gpt-4o", "say \"hi\"\nnow", None, k) : m \in {"chat", "responses"},
                                                     k \in ApiKeys}

\* Response documents of a non-streaming call.
Documents ==
    {"{\"choices\":[{\"message\":{\"content\":\"ans\"}}]}",
     "{}",
     "{\"output_text\":\"whole\"}",
     "{\"output_text\":\"\"}",
     "{\"type\":\"response.output_text.delta\",\"delta\":\"hi\"}",
     "{\"choices\":[{\"delta\":{\"content\":\"yo\"}}]}",
     "{\"choices\":[{\"message\":{\"content\":7}}],\"output.text\":\"dotted\"}",
     "{\"choices\":[{\"message\":\"txt\"}]}",
     "{\"choices\":[5]}",
     "[1]"}

\* Lines of a streaming response body.
LinePool ==
    {"",
     "   ",
     "data:",
     "[DONE]",
     "data: [DONE]",
     "not-json-at-all",
     "data: oops ",
     "data: {\"type\":\"response.output_text.delta\",\"delta\":\"hi\"}",
     "{\"choices\":[{\"delta\":{\"content\":\"yo\"}}]}",
     "{\"output_text\":\"whole\"}",
     "{\"type\":\"ping\"}",
     "{\"type\":\"x.output_text.delta\",\"delta\":\"\",\"choices\":[{\"delta\":{\"content\":\"b\"}}],\"output_text\":\"c\"}",
     "{\"type\":\"x.output_text.delta\",\"delta\":1,\"choices\":[{\"delta\":{\"content\":\"b\"}}],\"output_text\":\"c\"}",
     "{\"type\":\"x.output_text.delta\",\"choices\":[{\"delta\":null}],\"output_text\":\"c\"}",
     "42",
     "{\"choices\":[5],\"output_text\":\"c\"}",
     "{\"choices\":[{\"delta\":\"x\"}]}"}

\* Statuses of a failed request.
ErrorStatuses == {404, 500}

\* The statuses a response can come with: success, a redirection status that
\* requests hands back as the final response (304 has no Location to follow),
\* and the error statuses.
Statuses == {200, 304} \cup ErrorStatuses

\* The texts of a response of ask_once with the status: a 304 has no body.
DocumentsOf(code) == IF code = 304 THEN {""} ELSE Documents

Bodies == UNION {[1..n -> LinePool] : n \in 0..MaxLines}

\* The lines of a response of ask_stream with the status: a 304 has no body.
BodiesOf(code) == IF code = 304 THEN {<<>>} ELSE Bodies

(***************************************************************************)
(* Characters.  The strings of the configuration are over ASCII without    *)
(* U+0000 and U+0060, which a TLA+ string cannot hold; the control         *)
(* characters stand in the two tables below as themselves.                 *)
(***************************************************************************)

\* The characters U+0001 to U+005F, in code point order.
AsciiLow ==
    "" \o "\t" \o "\n" \o "" \o "\f" \o "\r" \o "" \o
    " !\"#$%&'()*+,-./0123456789:;<=>?@ABCDEFGHIJKLMNOPQRSTUVWXYZ[\\]^_"

\* The characters U+0061 to U+007F, in code point order.
AsciiHigh == "abcdefghijklmnopqrstuvwxyz{|}~"

\* ord(ch)
Ord(ch) ==
    IF \E i \in 1..Len(AsciiLow) : Char(AsciiLow, i) = ch
    THEN CHOOSE i \in 1..Len(AsciiLow) : Char(AsciiLow, i) = ch
    ELSE 96 + (CHOOSE i \in 1..Len(AsciiHigh) : Char(AsciiHigh, i) = ch)

\* chr(n), for the code points of the two tables.
Chr(n) == IF n <= 95 THEN Char(AsciiLow, n) ELSE Char(AsciiHigh, n - 96)

\* The characters ch with ord(ch) < 0x20.
ControlChars == {Char(AsciiLow, i) : i \in 1..31}

\* "\b", "\x01" and "\x7f" in Python's notation.
BS == Chr(8)
SOH == Chr(1)
DEL == Chr(127)

HexDigits == "0123456789ABCDEF"
LowerHexDigits == "0123456789abcdef"

\* f"{n:04X}"
Hex4(n) ==
    Char(HexDigits, ((n \div 4096) % 16) + 1) \o Char(HexDigits, ((n \div 256) % 16) + 1)
        \o Char(HexDigits, ((n \div 16) % 16) + 1) \o Char(HexDigits, (n % 16) + 1)

IsHexDigit(c) ==
    c # "" /\ \E d \in 1..16 : Char(HexDigits, d) = c \/ Char(LowerHexDigits, d) = c

HexValue(c) ==
    (CHOOSE d \in 1..16 : Char(HexDigits, d) = c \/ Char(LowerHexDigits, d) = c) - 1

(***************************************************************************)
(* The functions of config.py                                              *)
(***************************************************************************)

CONFIG_FILE == "config.toml"

KEY_API == "api_key"
KEY_BASE_URL == "base_url"
KEY_DEFAULT_MODEL == "default_model"
KEY_DEFAULT_MODE == "default_mode"

\* The fields of Config, in the order of the dataclass.
Fields == <<KEY_API, KEY_BASE_URL, KEY_DEFAULT_MODEL, KEY_DEFAULT_MODE>>

\* Config(api_key=..., base_url=..., default_model=..., default_mode=...);
\* each field is None or Some(str).
Config(api_key, base_url, default_model, default_mode) ==
    [api_key |-> api_key, base_url |-> base_url,
     default_model |-> default_model, default_mode |-> default_mode]

\* Config()
EmptyConfig == Config(None, None, None, None)

\* _toml_escape(s), from its character i on.
RECURSIVE TomlEscapeFrom(_, _)
TomlEscapeFrom(s, i) ==
    LET ch == Char(s, i)
    IN  IF i > Len(s) THEN ""
        ELSE (CASE ch = "\"" -> "\\\""
                [] ch = "\\" -> "\\\\"
                [] ch = BS -> "\\b"
                [] ch = "\t" -> "\\t"
                [] ch = "\n" -> "\\n"
                [] ch = "\f" -> "\\f"
                [] ch = "\r" -> "\\r"
                [] OTHER -> IF ch \in ControlChars THEN "\\u" \o Hex4(Ord(ch)) ELSE ch)
             \o TomlEscapeFrom(s, i + 1)

toml_escape(s) == TomlEscapeFrom(s, 1)

\* _dump_toml(data) for a mapping of str values, from its item i on: one
\* line `key = "escaped value"` for each item.
RECURSIVE DumpTomlFrom(_, _)
DumpTomlFrom(data, i) ==
    IF i > Len(data) THEN ""
    ELSE data[i].key \o " = \"" \o toml_escape(data[i].val) \o "\"\n"
             \o DumpTomlFrom(data, i + 1)

dump_toml(data) == DumpTomlFrom(data, 1)

\* _normalize_str(value)
normalize_str(value) ==
    IF value = None THEN None
    ELSE LET v == Strip(value.v) IN IF v # "" THEN Some(v) ELSE None

(***************************************************************************)
(* tomllib.loads, on the TOML the configuration file uses: lines           *)
(* `key = value` with a bare key and a basic string, an integer or a       *)
(* boolean, blank lines and comments.  The result is the document as a     *)
(* dict.                                                                   *)
(***************************************************************************)

TomlSpace == {" ", "\t"}

RECURSIVE SkipTomlSpace(_, _)
SkipTomlSpace(s, i) == IF Char(s, i) \in TomlSpace THEN SkipTomlSpace(s, i + 1) ELSE i

\* A character a comment or a basic string may not hold: a control
\* character other than the tab.
IsIllegalChar(c) == c \in (ControlChars \ {"\t"}) \cup {DEL}

\* The position after the comment, if any, at position i.
RECURSIVE SkipComment(_, _)
SkipComment(s, i) ==
    IF Char(s, i) = "" \/ IsIllegalChar(Char(s, i)) THEN i ELSE SkipComment(s, i + 1)

BareKeyChars ==
    {"-", "_"} \cup {Char(Digits, i) : i \in 1..Len(Digits)}
        \cup {Char(UpperLetters, i) : i \in 1..Len(UpperLetters)}
        \cup {Char(LowerLetters, i) : i \in 1..Len(LowerLetters)}

IsBareKeyChar(c) == c \in BareKeyChars

\* The position after the bare key at position i.
RECURSIVE BareKeyEnd(_, _)
BareKeyEnd(s, i) == IF IsBareKeyChar(Char(s, i)) THEN BareKeyEnd(s, i + 1) ELSE i

\* The code point of the four hexadecimal digits at position i, -1 when
\* they are not four hexadecimal digits.
HexCode(s, i) ==
    IF \A k \in 0..3 : IsHexDigit(Char(s, i + k))
    THEN HexValue(Char(s, i)) * 4096 + HexValue(Char(s, i + 1)) * 256
             + HexValue(Char(s, i + 2)) * 16 + HexValue(Char(s, i + 3))
    ELSE 0 - 1

\* The characters of a basic string from position i, after its opening
\* quote.
RECURSIVE BasicString(_, _, _)
BasicString(s, i, acc) ==
    LET c == Char(s, i)
        e == Char(s, i + 1)
        code == HexCode(s, i + 2)
    IN  CASE c = "" -> Failed
          [] c = "\"" -> Parsed(JStr(acc), i + 1)
          [] c = "\\" ->
                CASE e = "b" -> BasicString(s, i + 2, acc \o BS)
                  [] e = "t" -> BasicString(s, i + 2, acc \o "\t")
                  [] e = "n" -> BasicString(s, i + 2, acc \o "\n")
                  [] e = "f" -> BasicString(s, i + 2, acc \o "\f")
                  [] e = "r" -> BasicString(s, i + 2, acc \o "\r")
                  [] e = "\"" -> BasicString(s, i + 2, acc \o "\"")
                  [] e = "\\" -> BasicString(s, i + 2, acc \o "\\")
                  [] e = "u" /\ code \in (1..127) \ {96} ->
                        BasicString(s, i + 6, acc \o Chr(code))
                  [] OTHER -> Failed
          [] IsIllegalChar(c) -> Failed
          [] OTHER -> BasicString(s, i + 1, acc \o c)

\* The value at position i.
TomlValue(s, i) ==
    LET c == Char(s, i)
    IN  CASE c = "\"" /\ Char(s, i + 1) = "\"" /\ Char(s, i + 2) = "\"" -> Failed
          [] c = "\"" -> BasicString(s, i + 1, "")
          [] c = "t" -> Literal(s, i, "true", JBool(TRUE))
          [] c = "f" -> Literal(s, i, "false", JBool(FALSE))
          [] IsDigit(c) -> Unsigned(s, i)
          [] OTHER -> Failed

\* The statements of the document from position i, which begins a line.
RECURSIVE TomlStatements(_, _, _)
TomlStatements(s, i, acc) ==
    LET k == SkipTomlSpace(s, i)
        c == Char(s, k)
        keyEnd == BareKeyEnd(s, k)
        key == SubSeq(s, k, keyEnd - 1)
        eq == SkipTomlSpace(s, keyEnd)
        val == IF Char(s, eq) = "=" THEN TomlValue(s, SkipTomlSpace(s, eq + 1)) ELSE Failed
        stmtEnd == IF IsBareKeyChar(c) THEN val.i ELSE k
        rest == SkipTomlSpace(s, stmtEnd)
        eol == IF Char(s, rest) = "#" THEN SkipComment(s, rest + 1) ELSE rest
        doc == IF IsBareKeyChar(c) THEN Append(acc, Item(key, val.v)) ELSE acc
    IN  CASE c = "" -> Parsed(JObj(acc), k)
          [] c = "\n" -> TomlStatements(s, k + 1, acc)
          [] IsBareKeyChar(c) /\ (~val.ok \/ HasKey(acc, key)) -> Failed
          [] ~IsBareKeyChar(c) /\ c # "#" -> Failed
          [] Char(s, eol) = "" -> Parsed(JObj(doc), eol)
          [] Char(s, eol) = "\n" -> TomlStatements(s, eol + 1, doc)
          [] OTHER -> Failed

\* tomllib.loads(s): ok is FALSE where tomllib raises TOMLDecodeError.
tomllib_loads(s) == TomlStatements(s, 1, <<>>)

(***************************************************************************)
(* load_config, save_config and update_config as functions of the file     *)
(***************************************************************************)

\* _get_str(key) on the decoded document.
get_str(data, key) ==
    LET val == Get(data, key)
    IN  IF IsStr(val) /\ Strip(val.v) # "" THEN Some(val.v) ELSE None

\* The file (None when there is none) is one load_config cannot decode.
Malformed(f) == f # None /\ ~tomllib_loads(f.v).ok

\* What load_config returns for the file.
LoadedConfig(f) ==
    IF f = None \/ Malformed(f) THEN EmptyConfig
    ELSE LET data == tomllib_loads(f.v).v
         IN  Config(get_str(data, KEY_API), get_str(data, KEY_BASE_URL),
                    get_str(data, KEY_DEFAULT_MODEL), get_str(data, KEY_DEFAULT_MODE))

\* The mapping save_config builds: the fields that are not None, in order.
RECURSIVE SavedData(_, _)
SavedData(cfg, i) ==
    IF i > Len(Fields) THEN <<>>
    ELSE (IF cfg[Fields[i]] # None THEN <<Item(Fields[i], cfg[Fields[i]].v)>> ELSE <<>>)
             \o SavedData(cfg, i + 1)

\* The text save_config writes for cfg.
ConfigText(cfg) == dump_toml(SavedData(cfg, 1))

\* The keys update_config accepts.
allowed == {KEY_API, KEY_BASE_URL, KEY_DEFAULT_MODEL, KEY_DEFAULT_MODE}

\* `cleaned` after the loop of update_config over the items of kwargs from
\* item i on.
RECURSIVE Cleaned(_, _, _)
Cleaned(kwargs, i, acc) ==
    IF i > Len(kwargs) THEN acc
    ELSE Cleaned(kwargs, i + 1,
                 IF kwargs[i].key \in allowed /\ kwargs[i].val # None
                 THEN Put(acc, kwargs[i].key, normalize_str(kwargs[i].val))
                 ELSE acc)

\* dataclasses.replace(current, **cleaned)
Replace(current, cleaned) ==
    [f \in DOMAIN current |->
        IF HasKey(cleaned, f)
        THEN cleaned[CHOOSE i \in 1..Len(cleaned) : cleaned[i].key = f].val
        ELSE current[f]]

\* The Config update_config saves when the file is f.
UpdatedConfig(f, kwargs) == Replace(LoadedConfig(f), Cleaned(kwargs, 1, <<>>))

\* TempName without a temporary file: the text is written to the destination.
TempNameIsDest(p) == CONFIG_FILE

\* The name of the temporary file of the p-th writer: the destination's name
\* between a dot and a part no other writer has, and ".tmp".
TempName(p) == "." \o CONFIG_FILE \o "." \o NatText(p) \o ".tmp"

\* The name load_config moves a malformed file to.
BadName == CONFIG_FILE \o ".bad-0"

(***************************************************************************)
(* Inputs of the configuration                                             *)
(***************************************************************************)

\* Values of a field: plain, with quotes and a backslash, with control
\* characters that have a short escape, with one that has none, with
\* U+007F, with blanks around it, blank and empty.
PlainValue == "sk-abc"
QuotedValue == "q\"\\x"
EscapedValue == "a\nb\tc" \o BS
ControlValue == "a" \o SOH \o "b"
DelValue == "a" \o DEL \o "b"
PaddedValue == " x "

ApiKeyValues ==
    {None, Some(PlainValue), Some(QuotedValue), Some(EscapedValue), Some(ControlValue),
     Some(DelValue), Some(PaddedValue), Some("  ")}

\* The Configs save_config is given.
Configs ==
    {Config(k, None, None, None) : k \in ApiKeyValues}
        \cup {Config(Some(PlainValue), Some("http://h/v1"), Some(QuotedValue), Some("chat")),
              Config(None, Some("http://h/v1"), Some(ControlValue), None)}

\* The values update_config is given for api_key.
UpdateValues == {None, Some("sk-xyz"), Some(PaddedValue), Some("  "), Some(""), Some(DelValue)}

\* The keyword arguments of update_config: api_key with each value, each
\* other key with a value to store and a value that clears, two keys at
\* once, a key that is not allowed, and none.
Kwargs ==
    {<<Item(KEY_API, v)>> : v \in UpdateValues}
        \cup {<<Item(Fields[i], v)>> : i \in 2..Len(Fields), v \in {Some(PaddedValue), Some("")}}
        \cup {<<Item(KEY_DEFAULT_MODEL, Some("gpt-4o")), Item(KEY_DEFAULT_MODE, Some("chat"))>>,
              <<Item("bogus", Some("z")), Item(KEY_API, None)>>,
              <<>>}

\* The files found before the first operation: none, one save_config wrote
\* and one written by hand.
InitialFiles ==
    {None,
     Some(ConfigText(Config(Some("sk-old"), Some("http://h/v1"), None, None))),
     Some("# cgpt\napi_key = \"sk-old\"   # key\n\nretries = 3\ndefault_mode=\"chat\"\n")}

(***************************************************************************)
(* State                                                                   *)
(***************************************************************************)

VARIABLES
    pc,        \* where the call is: idle, posted, iter, yield, done, raised,
               \* cancelled
    op,        \* the operation called: none, ask_once, ask_stream
    args,      \* the call's arguments (None before the call)
    request,   \* what requests.post was given (None before the call)
    status,    \* the response's HTTP status (0 before it arrives)
    body,      \* the response's text, in ask_once
    lines,     \* the response's lines, in ask_stream
    pos,       \* how many lines iter_lines has handed out
    out,       \* the fragments ask_stream has yielded
    result,    \* what ask_once returned (None until it returns)
    error,     \* the exception that left the call ("" when none)
    conn,      \* the streaming response: none, open, closed
    posts      \* how many times requests.post has been called

\* The configuration file as one process at a time uses it.
VARIABLES
    file,      \* the text of the configuration file (None when there is none)
    aside,     \* whether load_config has moved a malformed file aside
    last,      \* the operation that returned last: none, save_config,
               \* load_config, update_config
    saved,     \* the Config save_config was last given (None before)
    ret        \* what the last operation returned (None before)

\* The configuration directory as concurrent processes use it.
VARIABLES
    dir,       \* file name -> i-node of the file (0 when there is no file)
    disk,      \* i-node -> text of the i-node
    spc,       \* each writer's position in _atomic_write_text
    rpc,       \* the reader's position in load_config
    rino,      \* the i-node the reader has open (0 when none)
    rbuf,      \* what the reader has read
    rret       \* what the reader's load_config returned (None before)

apivars == <<pc, op, args, request, status, body, lines, pos, out, result, error, conn, posts>>
cfgvars == <<file, aside, last, saved, ret>>
fsvars == <<dir, disk, spc, rpc, rino, rbuf, rret>>
vars == <<apivars, cfgvars, fsvars>>

\* The processes that call save_config concurrently.
Writers == {1, 2}

\* The i-node NamedTemporaryFile creates for the p-th writer; i-node 1 is
\* that of the file found at the start.
TempInode(p) == p + 1

Inodes == {1} \cup {TempInode(p) : p \in Writers}

Names == {CONFIG_FILE, BadName} \cup {TempName(p) : p \in Writers}

\* No configuration operation has been called.
ConfigAtRest ==
    /\ file = None
    /\ aside = FALSE
    /\ last = "none"
    /\ saved = None
    /\ ret = None

\* No process has touched the configuration directory, which is empty.
DiskAtRest ==
    /\ dir = [n \in Names |-> 0]
    /\ disk = [i \in Inodes |-> ""]
    /\ spc = [p \in Writers |-> "start"]
    /\ rpc = "start"
    /\ rino = 0
    /\ rbuf = ""
    /\ rret = None

\* Neither ask_once nor ask_stream has been called.
ApiAtRest ==
    /\ pc = "idle"
    /\ op = "none"
    /\ args = None
    /\ request = None
    /\ status = 0
    /\ body = ""
    /\ lines = <<>>
    /\ pos = 0
    /\ out = <<>>
    /\ result = None
    /\ error = ""
    /\ conn = "none"
    /\ posts = 0

Init == ApiAtRest /\ ConfigAtRest /\ DiskAtRest

(***************************************************************************)
(* ask_once                                                                *)
(***************************************************************************)

\* ask_once is called: the URL and payload are built and the request is posted.
AskOncePost ==
    /\ pc = "idle"
    /\ \E a \in OnceCalls :
          /\ args' = a
          /\ request' = Request(a, FALSE)
    /\ posts' = posts + 1
    /\ op' = "ask_once"
    /\ pc' = "posted"
    /\ UNCHANGED <<status, body, lines, pos, out, result, error, conn>>
    /\ UNCHANGED <<cfgvars, fsvars>>

\* AskOnceHttpError with the request posted a second time before raising.
AskOnceHttpErrorRetried ==
    /\ pc = "posted" /\ op = "ask_once"
    /\ \E code \in Statuses : IsErrorStatus(code) /\ status' = code
    /\ body' = "{\"error\":\"no\"}"
    /\ error' = "HTTPError"
    /\ posts' = posts + 1
    /\ pc' = "raised"
    /\ UNCHANGED <<op, args, request, lines, pos, out, result, conn>>
    /\ UNCHANGED <<cfgvars, fsvars>>

\* The response has an error status: raise_for_status raises.
AskOnceHttpError ==
    /\ pc = "posted" /\ op = "ask_once"
    /\ \E code \in Statuses : IsErrorStatus(code) /\ status' = code
    /\ body' = "{\"error\":\"no\"}"
    /\ error' = "HTTPError"
    /\ pc' = "raised"
    /\ UNCHANGED <<op, args, request, lines, pos, out, result, conn, posts>>
    /\ UNCHANGED <<cfgvars, fsvars>>

\* requests.post raises (no connection, timeout): the exception leaves
\* ask_once.
AskOnceTransportError ==
    /\ pc = "posted" /\ op = "ask_once"
    /\ error' = "ConnectionError"
    /\ pc' = "raised"
    /\ UNCHANGED <<op, args, request, status, body, lines, pos, out, result, conn, posts>>
    /\ UNCHANGED <<cfgvars, fsvars>>

\* raise_for_status does not raise: the document is decoded (resp.json()
\* raises when the body is not JSON), the text extracted, and the text or
\* else the whole document as JSON is returned.
AskOnceReturn ==
    /\ pc = "posted" /\ op = "ask_once"
    /\ \E code \in Statuses :
          /\ ~IsErrorStatus(code)
          /\ status' = code
          /\ \E d \in DocumentsOf(code) :
                LET doc == json_loads(d)
                    text == ExtractOnce(args.model, doc.v)
                IN  /\ body' = d
                    /\ IF ~doc.ok
                       THEN /\ error' = "JSONDecodeError"
                            /\ pc' = "raised"
                            /\ result' = result
                       ELSE IF text.k = "raise"
                       THEN /\ error' = text.v
                            /\ pc' = "raised"
                            /\ result' = result
                       ELSE /\ result' = IF text.k = "str" THEN text
                                         ELSE Some(json_dumps(doc.v))
                            /\ pc' = "done"
                            /\ error' = error
    /\ UNCHANGED <<op, args, request, lines, pos, out, conn, posts>>
    /\ UNCHANGED <<cfgvars, fsvars>>

(***************************************************************************)
(* ask_stream                                                              *)
(***************************************************************************)

\* ask_stream is called and its generator started: the request is posted.
AskStreamPost ==
    /\ pc = "idle"
    /\ \E a \in StreamCalls :
          /\ args' = a
          /\ request' = Request(a, TRUE)
    /\ posts' = posts + 1
    /\ op' = "ask_stream"
    /\ pc' = "posted"
    /\ UNCHANGED <<status, body, lines, pos, out, result, error, conn>>
    /\ UNCHANGED <<cfgvars, fsvars>>

\* The response has an error status: raise_for_status raises inside the
\* `with` block, which closes the response.
StreamHttpError ==
    /\ pc = "posted" /\ op = "ask_stream"
    /\ \E code \in Statuses : IsErrorStatus(code) /\ status' = code
    /\ lines' = <<"{\"error\":\"no\"}">>
    /\ error' = "HTTPError"
    /\ conn' = "closed"
    /\ pc' = "raised"
    /\ UNCHANGED <<op, args, request, body, pos, out, result, posts>>
    /\ UNCHANGED <<cfgvars, fsvars>>

\* requests.post raises (no connection, timeout): the `with` block is never
\* entered and the exception leaves the generator.
StreamTransportError ==
    /\ pc = "posted" /\ op = "ask_stream"
    /\ error' = "ConnectionError"
    /\ pc' = "raised"
    /\ UNCHANGED <<op, args, request, status, body, lines, pos, out, result, conn, posts>>
    /\ UNCHANGED <<cfgvars, fsvars>>

\* raise_for_status does not raise: the loop over iter_lines starts.
StreamOpen ==
    /\ pc = "posted" /\ op = "ask_stream"
    /\ \E code \in Statuses :
          /\ ~IsErrorStatus(code)
          /\ status' = code
          /\ \E b \in BodiesOf(code) : lines' = b
    /\ conn' = "open"
    /\ pc' = "iter"
    /\ UNCHANGED <<op, args, request, body, pos, out, result, error, posts>>
    /\ UNCHANGED <<cfgvars, fsvars>>

\* The loop has a next line.
HasLine == pc = "iter" /\ pos < Len(lines)

\* The line iter_lines hands out next.
Raw == lines[pos + 1]

\* `if not raw: continue`
StreamSkipBlank ==
    /\ HasLine
    /\ Raw = ""
    /\ pos' = pos + 1
    /\ UNCHANGED <<pc, op, args, request, status, body, lines, out, result, error, conn, posts>>
    /\ UNCHANGED <<cfgvars, fsvars>>

\* StreamSentinel with `continue` in the place of `break`.
StreamSentinelContinues ==
    /\ HasLine
    /\ Raw # ""
    /\ StripLine(Raw) = "[DONE]"
    /\ pos' = pos + 1
    /\ UNCHANGED <<pc, op, args, request, status, body, lines, out, result, error, conn, posts>>
    /\ UNCHANGED <<cfgvars, fsvars>>

\* `if line == "[DONE]": break`, and the `with` block closes the response.
StreamSentinel ==
    /\ HasLine
    /\ Raw # ""
    /\ StripLine(Raw) = "[DONE]"
    /\ pos' = pos + 1
    /\ pc' = "done"
    /\ conn' = "closed"
    /\ UNCHANGED <<op, args, request, status, body, lines, out, result, error, posts>>
    /\ UNCHANGED <<cfgvars, fsvars>>

\* StreamPassThrough yielding `raw` in the place of `line`.
StreamPassThroughRaw ==
    /\ HasLine
    /\ Raw # ""
    /\ StripLine(Raw) # "[DONE]"
    /\ ~json_loads(StripLine(Raw)).ok
    /\ out' = Append(out, Raw)
    /\ pos' = pos + 1
    /\ pc' = "yield"
    /\ UNCHANGED <<op, args, request, status, body, lines, result, error, conn, posts>>
    /\ UNCHANGED <<cfgvars, fsvars>>

\* json.loads raises: the line is yielded, and the generator is suspended at
\* the yield.
StreamPassThrough ==
    /\ HasLine
    /\ Raw # ""
    /\ StripLine(Raw) # "[DONE]"
    /\ ~json_loads(StripLine(Raw)).ok
    /\ out' = Append(out, StripLine(Raw))
    /\ pos' = pos + 1
    /\ pc' = "yield"
    /\ UNCHANGED <<op, args, request, status, body, lines, result, error, conn, posts>>
    /\ UNCHANGED <<cfgvars, fsvars>>

\* json.loads returns: the event's delta is yielded when there is one, and
\* the generator is suspended at the yield; an exception of
\* _extract_stream_delta leaves the generator through the `with` block.
StreamEvent ==
    /\ HasLine
    /\ Raw # ""
    /\ StripLine(Raw) # "[DONE]"
    /\ json_loads(StripLine(Raw)).ok
    /\ LET delta == extract_stream_delta(json_loads(StripLine(Raw)).v)
       IN  /\ out' = IF delta.k = "str" THEN Append(out, delta.v) ELSE out
           /\ IF delta.k = "raise"
              THEN error' = delta.v /\ pc' = "raised" /\ conn' = "closed"
              ELSE /\ error' = error
                   /\ pc' = IF delta.k = "str" THEN "yield" ELSE pc
                   /\ conn' = conn
    /\ pos' = pos + 1
    /\ UNCHANGED <<op, args, request, status, body, lines, result, posts>>
    /\ UNCHANGED <<cfgvars, fsvars>>

\* iter_lines is exhausted: the loop and the `with` block end.
StreamExhausted ==
    /\ pc = "iter"
    /\ pos = Len(lines)
    /\ pc' = "done"
    /\ conn' = "closed"
    /\ UNCHANGED <<op, args, request, status, body, lines, pos, out, result, error, posts>>
    /\ UNCHANGED <<cfgvars, fsvars>>

\* The lines the transport delivered are used up and iter_lines raises in
\* the place of ending (the connection broke): the exception leaves the
\* generator through the `with` block.
StreamLineError ==
    /\ pc = "iter"
    /\ pos = Len(lines)
    /\ error' = "ChunkedEncodingError"
    /\ pc' = "raised"
    /\ conn' = "closed"
    /\ UNCHANGED <<op, args, request, status, body, lines, pos, out, result, posts>>
    /\ UNCHANGED <<cfgvars, fsvars>>

\* The caller asks for the next fragment: the generator runs on from the
\* yield.
StreamResume ==
    /\ pc = "yield"
    /\ pc' = "iter"
    /\ UNCHANGED <<op, args, request, status, body, lines, pos, out, result, error, conn, posts>>
    /\ UNCHANGED <<cfgvars, fsvars>>

\* StreamCancel without the `with` block: the response stays open.
StreamCancelLeaks ==
    /\ pc = "yield"
    /\ pc' = "cancelled"
    /\ UNCHANGED <<op, args, request, status, body, lines, pos, out, result, error, conn, posts>>
    /\ UNCHANGED <<cfgvars, fsvars>>

\* The caller closes the generator: GeneratorExit is raised at the yield and
\* leaves through the `with` block.
StreamCancel ==
    /\ pc = "yield"
    /\ pc' = "cancelled"
    /\ conn' = "closed"
    /\ UNCHANGED <<op, args, request, status, body, lines, pos, out, result, error, posts>>
    /\ UNCHANGED <<cfgvars, fsvars>>

Next ==
    \/ AskOncePost
    \/ AskOnceTransportError
    \/ AskOnceHttpError
    \/ AskOnceReturn
    \/ AskStreamPost
    \/ StreamTransportError
    \/ StreamHttpError
    \/ StreamOpen
    \/ StreamSkipBlank
    \/ StreamSentinel
    \/ StreamPassThrough
    \/ StreamEvent
    \/ StreamExhausted
    \/ StreamLineError
    \/ StreamResume
    \/ StreamCancel

Spec == Init /\ [][Next]_vars

(***************************************************************************)
(* save_config, load_config and update_config, called one at a time        *)
(***************************************************************************)

\* What save_config and update_config return, the path of the file, and
\* what load_config returns, a Config.
ConfigPath == [k |-> "Path", v |-> [name |-> CONFIG_FILE]]
Loaded(cfg) == [k |-> "Config", v |-> cfg]

\* save_config(cfg): the text of the fields that are not None replaces the
\* file, and the path is returned.
SaveConfig(cfg) ==
    /\ file' = Some(ConfigText(cfg))
    /\ saved' = cfg
    /\ ret' = ConfigPath
    /\ last' = "save_config"
    /\ UNCHANGED aside
    /\ UNCHANGED <<apivars, fsvars>>

\* load_config(): Config() when there is no file; a file tomllib cannot
\* decode is moved aside and Config() returned; otherwise the four keys are
\* read from the document.
LoadConfig ==
    /\ ret' = Loaded(LoadedConfig(file))
    /\ IF Malformed(file)
       THEN file' = None /\ aside' = TRUE
       ELSE UNCHANGED <<file, aside>>
    /\ last' = "load_config"
    /\ UNCHANGED saved
    /\ UNCHANGED <<apivars, fsvars>>

\* update_config(**kwargs): load_config, replace the fields given with
\* their normalized values, save_config.
UpdateConfig(kwargs) ==
    /\ file' = Some(ConfigText(UpdatedConfig(file, kwargs)))
    /\ aside' = (aside \/ Malformed(file))
    /\ saved' = UpdatedConfig(file, kwargs)
    /\ ret' = ConfigPath
    /\ last' = "update_config"
    /\ UNCHANGED <<apivars, fsvars>>

InitConfig ==
    /\ ApiAtRest
    /\ file \in InitialFiles
    /\ aside = FALSE
    /\ last = "none"
    /\ saved = None
    /\ ret = None
    /\ DiskAtRest

NextConfig ==
    \/ \E cfg \in Configs : SaveConfig(cfg)
    \/ LoadConfig
    \/ \E kwargs \in Kwargs : UpdateConfig(kwargs)

SpecConfig == InitConfig /\ [][NextConfig]_vars

(***************************************************************************)
(* _atomic_write_text and load_config, step by step, in concurrent         *)
(* processes: each writer calls save_config once, the reader load_config   *)
(* once, at any time.                                                      *)
(***************************************************************************)

\* The Config the p-th writer saves, and its text.
WriterConfig(p) ==
    IF p = 1 THEN Config(Some("sk-new"), Some("http://h/v1"), None, None)
    ELSE Config(Some(DelValue), None, None, Some("chat"))

WriterText(p) == ConfigText(WriterConfig(p))

\* The text of the file found at the start.
OldText == ConfigText(Config(Some("sk-old"), None, None, Some("chat")))

\* The part of a text that one write or one read moves first.
FirstPart(text) == SubSeq(text, 1, Len(text) \div 2)

\* NamedTemporaryFile(dir=dest.parent, prefix=..., suffix=".tmp",
\* delete=False) creates an empty file of a new name.
WriterCreate(p) ==
    /\ spc[p] = "start"
    /\ dir' = [dir EXCEPT ![TempName(p)] = TempInode(p)]
    /\ disk' = [disk EXCEPT ![TempInode(p)] = ""]
    /\ spc' = [spc EXCEPT ![p] = "created"]
    /\ UNCHANGED <<rpc, rino, rbuf, rret>>
    /\ UNCHANGED <<apivars, cfgvars>>

\* file.write(data), file.flush(): a first part of the text reaches the file.
WriterWritePart(p) ==
    /\ spc[p] = "created"
    /\ disk' = [disk EXCEPT ![TempInode(p)] = FirstPart(WriterText(p))]
    /\ spc' = [spc EXCEPT ![p] = "partial"]
    /\ UNCHANGED <<dir, rpc, rino, rbuf, rret>>
    /\ UNCHANGED <<apivars, cfgvars>>

\* The whole text has reached the file; os.fsync, and the file is closed.
WriterWriteRest(p) ==
    /\ spc[p] \in {"created", "partial"}
    /\ disk' = [disk EXCEPT ![TempInode(p)] = WriterText(p)]
    /\ spc' = [spc EXCEPT ![p] = "written"]
    /\ UNCHANGED <<dir, rpc, rino, rbuf, rret>>
    /\ UNCHANGED <<apivars, cfgvars>>

\* write, flush or fsync raises (the disk is full): the exception leaves the
\* `with` block, which closes the file and keeps it, and save_config.
WriterWriteFails(p) ==
    /\ spc[p] \in {"created", "partial"}
    /\ spc' = [spc EXCEPT ![p] = "write_failed"]
    /\ UNCHANGED <<dir, disk, rpc, rino, rbuf, rret>>
    /\ UNCHANGED <<apivars, cfgvars>>

\* os.replace(tmp_path, dest): the destination's name now names the
\* temporary file's i-node, and the temporary name is gone.
WriterReplace(p) ==
    /\ spc[p] = "written"
    /\ dir' = [dir EXCEPT ![TempName(p)] = 0, ![CONFIG_FILE] = TempInode(p)]
    /\ spc' = [spc EXCEPT ![p] = "done"]
    /\ UNCHANGED <<disk, rpc, rino, rbuf, rret>>
    /\ UNCHANGED <<apivars, cfgvars>>

\* os.replace raises: the except branch is entered.
WriterReplaceFails(p) ==
    /\ spc[p] = "written"
    /\ spc' = [spc EXCEPT ![p] = "unlinking"]
    /\ UNCHANGED <<dir, disk, rpc, rino, rbuf, rret>>
    /\ UNCHANGED <<apivars, cfgvars>>

\* os.unlink(tmp_path) removes the temporary file, and the exception of
\* os.replace is raised again.
WriterUnlink(p) ==
    /\ spc[p] = "unlinking"
    /\ dir' = [dir EXCEPT ![TempName(p)] = 0]
    /\ spc' = [spc EXCEPT ![p] = "replace_failed"]
    /\ UNCHANGED <<disk, rpc, rino, rbuf, rret>>
    /\ UNCHANGED <<apivars, cfgvars>>

\* os.unlink raises OSError, which is passed over, and the exception of
\* os.replace is raised again.
WriterUnlinkFails(p) ==
    /\ spc[p] = "unlinking"
    /\ spc' = [spc EXCEPT ![p] = "replace_failed"]
    /\ UNCHANGED <<dir, disk, rpc, rino, rbuf, rret>>
    /\ UNCHANGED <<apivars, cfgvars>>

\* `if not path.exists(): return Config()`
ReaderExists ==
    /\ rpc = "start"
    /\ IF dir[CONFIG_FILE] = 0
       THEN rpc' = "done" /\ rret' = Some(EmptyConfig)
       ELSE rpc' = "checked" /\ rret' = rret
    /\ UNCHANGED <<dir, disk, spc, rino, rbuf>>
    /\ UNCHANGED <<apivars, cfgvars>>

\* path.open("rb"): the file the name names now is opened; when there is
\* none the OSError is caught and Config() returned.
ReaderOpen ==
    /\ rpc = "checked"
    /\ IF dir[CONFIG_FILE] = 0
       THEN rpc' = "done" /\ rret' = Some(EmptyConfig) /\ rino' = rino
       ELSE rpc' = "opened" /\ rret' = rret /\ rino' = dir[CONFIG_FILE]
    /\ UNCHANGED <<dir, disk, spc, rbuf>>
    /\ UNCHANGED <<apivars, cfgvars>>

\* tomllib.load reads the file: a first part of its text is read.
ReaderReadPart ==
    /\ rpc = "opened"
    /\ rbuf' = FirstPart(disk[rino])
    /\ rpc' = "reading"
    /\ UNCHANGED <<dir, disk, spc, rino, rret>>
    /\ UNCHANGED <<apivars, cfgvars>>

\* The rest of the file's text is read.
ReaderReadRest ==
    /\ rpc \in {"opened", "reading"}
    /\ rbuf' = rbuf \o DropFirst(disk[rino], Len(rbuf))
    /\ rpc' = "read"
    /\ UNCHANGED <<dir, disk, spc, rino, rret>>
    /\ UNCHANGED <<apivars, cfgvars>>

\* The text read is decoded: a malformed text makes load_config move the
\* file the destination names now aside (an OSError of the move is passed
\* over) and return Config(); otherwise the four keys are returned.
ReaderDecode ==
    /\ rpc = "read"
    /\ rret' = Some(LoadedConfig(Some(rbuf)))
    /\ dir' = IF Malformed(Some(rbuf)) /\ dir[CONFIG_FILE] # 0
              THEN [dir EXCEPT ![BadName] = dir[CONFIG_FILE], ![CONFIG_FILE] = 0]
              ELSE dir
    /\ rpc' = "done"
    /\ UNCHANGED <<disk, spc, rino, rbuf>>
    /\ UNCHANGED <<apivars, cfgvars>>

\* At the start the configuration file holds the old text, or there is none.
InitAtomic ==
    /\ ApiAtRest
    /\ ConfigAtRest
    /\ dir \in {[n \in Names |-> IF n = CONFIG_FILE THEN i ELSE 0] : i \in {0, 1}}
    /\ disk = [i \in Inodes |-> IF i = 1 /\ dir[CONFIG_FILE] = 1 THEN OldText ELSE ""]
    /\ spc = [p \in Writers |-> "start"]
    /\ rpc = "start"
    /\ rino = 0
    /\ rbuf = ""
    /\ rret = None

NextAtomic ==
    \/ \E p \in Writers : WriterCreate(p)
    \/ \E p \in Writers : WriterWritePart(p)
    \/ \E p \in Writers : WriterWriteRest(p)
    \/ \E p \in Writers : WriterWriteFails(p)
    \/ \E p \in Writers : WriterReplace(p)
    \/ \E p \in Writers : WriterReplaceFails(p)
    \/ \E p \in Writers : WriterUnlink(p)
    \/ \E p \in Writers : WriterUnlinkFails(p)
    \/ ReaderExists
    \/ ReaderOpen
    \/ ReaderReadPart
    \/ ReaderReadRest
    \/ ReaderDecode

SpecAtomic == InitAtomic /\ [][NextAtomic]_vars

(***************************************************************************)
(* Properties                                                              *)
(***************************************************************************)

\* A streaming call whose response came with status 200.
Streaming == op = "ask_stream" /\ status = 200

\* The line is the termination sentinel: "[DONE]" once an optional "data:"
\* prefix is removed and the rest trimmed.
IsSentinel(raw) == StripLine(raw) = "[DONE]"

\* A sentinel is among the lines already read.
SentinelRead == Streaming /\ \E i \in 1..pos : IsSentinel(lines[i])

\* C1: once the loop of ask_stream meets a sentinel line the stream ends
\* successfully at that line: the step that reads it yields nothing and ends
\* the call without error, and from then on no line is read and no fragment
\* is yielded, whatever lines remain.
C1_SentinelEndsStream ==
    [][/\ (HasLine /\ IsSentinel(Raw)) =>
             (pc' = "done" /\ error' = "" /\ out' = out /\ pos' = pos + 1)
       /\ SentinelRead => (pos' = pos /\ out' = out /\ pc' = "done" /\ error' = "")]_vars

\* C1 witness: the call has ended at a sentinel with a line left unread that
\* would have been yielded.
C1_Witness ==
    /\ SentinelRead
    /\ pc = "done"
    /\ pos < Len(lines)
    /\ lines[pos + 1] = "not-json-at-all"

\* The fragments one line stands for: none for a blank line, the line itself
\* when it is not JSON, and for a JSON event its delta when it has one.
LineFragments(raw) ==
    LET event == json_loads(StripLine(raw))
        delta == extract_stream_delta(event.v)
    IN  CASE raw = "" -> <<>>
          [] ~event.ok -> <<StripLine(raw)>>
          [] delta.k = "str" -> <<delta.v>>
          [] OTHER -> <<>>

\* The fragments of the lines before the first sentinel, in order.
RECURSIVE FragmentsFrom(_, _)
FragmentsFrom(ls, i) ==
    IF i > Len(ls) \/ IsSentinel(ls[i]) THEN <<>>
    ELSE LineFragments(ls[i]) \o FragmentsFrom(ls, i + 1)

\* The streaming call has ended, by return or by exception.
StreamEnded == Streaming /\ pc \in {"done", "raised"}

\* C2: the fragments ask_stream yields are, in order, those of the lines
\* before the first sentinel, or of all lines when there is none: each
\* line gives zero or one fragment and none is dropped, repeated or moved.
C2_FragmentsInWireOrder == StreamEnded => out = FragmentsFrom(lines, 1)

\* C3: on the lines of a 200 response the normalizer never raises (the
\* only exception is the transport's, once the delivered lines are used up):
\* the call ends only at the sentinel or when the lines are exhausted.
C3_NeverRaisesOnContent ==
    Streaming => /\ error \in {"", "ChunkedEncodingError"}
                 /\ pc = "raised" => pos = Len(lines)
                 /\ pc = "done" => (SentinelRead \/ pos = Len(lines))

\* A non-streaming call whose response came with status 200.
OnceAnswered == op = "ask_once" /\ status = 200

\* The decoded response document of the non-streaming call.
Document == json_loads(body).v

\* C4: the Responses-mode extractor of ask_once gives for every document
\* what the stream normalizer's extractor gives: the same text, or both none.
C4_ExtractorsAgree ==
    (OnceAnswered /\ args.model # "chat") =>
        extract_responses_text(Document) = extract_stream_delta(Document)

\* The document has choices[0].message.content, and it is a string.
HasChatContent(d) ==
    /\ IsDict(d)
    /\ IsList(Get(d, "choices"))
    /\ Len(Get(d, "choices").v) > 0
    /\ IsDict(Get(d, "choices").v[1])
    /\ IsDict(Get(Get(d, "choices").v[1], "message"))
    /\ IsStr(Get(Get(Get(d, "choices").v[1], "message"), "content"))

ChatContent(d) == Get(Get(Get(d, "choices").v[1], "message"), "content").v

\* C5: in a non-streaming call the mode selects the extraction: in chat
\* mode, whatever the model, a document with a string at
\* choices[0].message.content makes ask_once return that string, and any
\* other document makes the extraction yield none, without error.
C5_ModeSelectsExtraction ==
    (OnceAnswered /\ Lower(args.mode) = "chat") =>
        /\ HasChatContent(Document) => (pc = "done" /\ result = Some(ChatContent(Document)))
        /\ ~HasChatContent(Document) =>
              (pc = "done" /\ error = "" /\ result = Some(json_dumps(Document)))

\* The delta the three shapes give, the first that matches winning.
DeltaByPriority(e) ==
    LET first == Get(e, "choices").v[1]
    IN  IF /\ IsStr(Get(e, "type"))
           /\ EndsWith(Get(e, "type").v, "output_text.delta")
           /\ IsStr(Get(e, "delta"))
        THEN Some(Get(e, "delta").v)
        ELSE IF /\ IsList(Get(e, "choices"))
                /\ Len(Get(e, "choices").v) > 0
                /\ IsDict(first)
                /\ IsDict(Get(first, "delta"))
                /\ IsStr(Get(Get(first, "delta"), "content"))
        THEN Some(Get(Get(first, "delta"), "content").v)
        ELSE IF IsStr(Get(e, "output_text")) THEN Some(Get(e, "output_text").v)
        ELSE None

\* The next line decodes to a JSON object.
ObjectEventNext ==
    /\ HasLine
    /\ Raw # ""
    /\ ~IsSentinel(Raw)
    /\ json_loads(StripLine(Raw)).ok
    /\ IsDict(json_loads(StripLine(Raw)).v)

\* C6: for every decoded JSON object the delta is that of the first matching
\* shape among the Responses delta, the Chat delta and the flat output_text,
\* and there is no fragment when none matches.
C6_FirstMatchWins ==
    [][ObjectEventNext =>
          LET want == DeltaByPriority(json_loads(StripLine(Raw)).v)
          IN  /\ error' = ""
              /\ out' = IF want.k = "str" THEN Append(out, want.v) ELSE out]_vars

\* C7: for every 200 response document ask_once returns the extracted
\* text, or else a JSON text that decodes back to the whole document; it
\* never ends without a result.
C7_FallbackRendersDocument ==
    OnceAnswered =>
        /\ pc = "done"
        /\ result.k = "str"
        /\ \/ result = ExtractOnce(args.model, Document)
           \/ /\ ExtractOnce(args.model, Document).k = "None"
              /\ json_loads(result.v).ok
              /\ json_loads(result.v).v = Document

\* The next line is not blank, is not the sentinel and is not JSON.
NonJsonNext ==
    /\ HasLine
    /\ Raw # ""
    /\ ~IsSentinel(Raw)
    /\ ~json_loads(StripLine(Raw)).ok

\* C8 as claimed: the fragment yielded for a line that is not JSON is the
\* raw line as the transport delivered it.
C8_RawLineYielded == [][NonJsonNext => out' = Append(out, Raw)]_vars

\* C8: the fragment yielded for a line that is not JSON is the line without
\* its "data:" prefix and without surrounding whitespace; it is the raw line
\* when the raw line has neither.
C8_StrippedLineYielded ==
    [][NonJsonNext =>
          /\ out' = Append(out, StripLine(Raw))
          /\ pos' = pos + 1
          /\ pc' = "yield"
          /\ (~StartsWith(Raw, "data:") /\ Strip(Raw) = Raw) => out' = Append(out, Raw)]_vars

\* C8 witness: a non-JSON line with a prefix and a trailing blank was yielded.
C8_Witness ==
    /\ Streaming
    /\ pos > 0
    /\ lines[pos] = "data: oops "
    /\ out # <<>>
    /\ out[Len(out)] = "oops"

\* A request has been posted.
Posted == pc # "idle"

\* s is r followed by slashes only.
RECURSIVE SlashesAfter(_, _)
SlashesAfter(s, r) ==
    \/ s = r
    \/ Len(s) > Len(r) /\ Char(s, Len(s)) = "/" /\ SlashesAfter(SubSeq(s, 1, Len(s) - 1), r)

\* The suffix the mode stands for.
SuffixOf(mode) == IF Lower(mode) = "chat" THEN "/chat/completions" ELSE "/responses"

\* The URL is `base` without its trailing slashes, then the mode's suffix.
ResolvesFrom(url, mode, base) ==
    LET root == SubSeq(url, 1, Len(url) - Len(SuffixOf(mode)))
    IN  /\ EndsWith(url, SuffixOf(mode))
        /\ EndsWith(url, "/chat/completions") <=> Lower(mode) = "chat"
        /\ ~EndsWith(root, "/")
        /\ SlashesAfter(base, root)

\* C9 as claimed: the root is the override whenever one is given, the empty
\* one included, and the default root only when it is absent.
C9_RootIsOverride ==
    Posted => ResolvesFrom(request.url, args.mode,
                           IF args.base_url.k = "None" THEN DEFAULT_BASE_URL
                           ELSE args.base_url.v)

\* C9: the URL ends in /chat/completions exactly when the mode is "chat" in
\* any case and in /responses otherwise; its root is the override without its
\* trailing slashes, or the default root when the override is absent or
\* empty; no slash precedes the suffix.
C9_EndpointResolved ==
    Posted => ResolvesFrom(request.url, args.mode,
                           IF args.base_url \in {None, Some("")} THEN DEFAULT_BASE_URL
                           ELSE args.base_url.v)

\* C9 witness: a mode spelt "Chat" and an override ending in two slashes.
C9_Witness ==
    /\ Posted
    /\ args.mode = "Chat"
    /\ args.base_url = Some("http://h/v1//")
    /\ request.url = "http://h/v1/chat/completions"

\* The payload as the server decodes it.
SentPayload == json_loads(request.data).v

\* C10: the payload matches the mode that selected the endpoint: in chat mode
\* `messages` holds one user message whose content is the prompt and there is
\* no `input`; otherwise `input` is the prompt and there is no `messages`;
\* `stream` is true in ask_stream and absent in ask_once.
C10_PayloadMatchesMode ==
    Posted =>
        LET p == SentPayload
            msgs == Get(p, "messages")
            chat == Lower(args.mode) = "chat"
        IN  /\ json_loads(request.data).ok
            /\ IsDict(p)
            /\ chat <=> EndsWith(request.url, "/chat/completions")
            /\ chat => /\ ~HasKey(p.v, "input")
                       /\ IsList(msgs)
                       /\ Len(msgs.v) = 1
                       /\ msgs.v[1] = JObj(<<Item("role", JStr("user")),
                                             Item("content", JStr(args.prompt))>>)
            /\ ~chat => /\ ~HasKey(p.v, "messages")
                        /\ Get(p, "input") = JStr(args.prompt)
            /\ op = "ask_stream" => (request.stream /\ Get(p, "stream") = JBool(TRUE))
            /\ op = "ask_once" => ~HasKey(p.v, "stream")

\* C10 witness: a streaming chat call whose prompt has quotes and a newline.
C10_Witness ==
    /\ Posted
    /\ op = "ask_stream"
    /\ args.mode = "chat"
    /\ args.prompt = "say \"hi\"\nnow"
    /\ request.data =
         "{\"model\": \"gpt-4o\", \"messages\": [{\"role\": \"user\", \"content\": \"say \\\"hi\\\"\\nnow\"}], \"stream\": true}"

\* C11: every request ask_once and ask_stream post carries exactly two
\* headers: Authorization, with the value "Bearer " followed by the api_key,
\* and Content-Type, with the value application/json.
C11_RequestHeaders ==
    Posted =>
        request.headers = <<Item("Authorization", "Bearer " \o args.api_key),
                            Item("Content-Type", "application/json")>>

\* A response has arrived with a status outside 200..299.
NonSuccess == status # 0 /\ ~(status >= 200 /\ status < 300)

\* The call has raised with no line read, no fragment yielded and no text
\* returned.
RaisedAtStatus ==
    /\ pc = "raised"
    /\ pos = 0
    /\ out = <<>>
    /\ result = None

\* Exactly one request has been posted by a call, and none before it.
OneRequest == posts = (IF Posted THEN 1 ELSE 0)

\* C12 as claimed: a response whose status is not 2xx makes the call raise
\* before any line is read, fragment yielded or text returned, and a call
\* posts exactly one request on every path.
C12_NonSuccessFatal == OneRequest /\ (NonSuccess => RaisedAtStatus)

\* C12: a response with an error status (400 to 599) makes the call raise
\* HTTPError before any line is read, fragment yielded or text returned, and
\* a call posts exactly one request on every path: success, status failure
\* and transport failure.
C12_ErrorStatusFatal ==
    /\ OneRequest
    /\ IsErrorStatus(status) => (RaisedAtStatus /\ error = "HTTPError")

\* C12 witness: a streaming call has failed on status 500 with the error body
\* unread.
C12_Witness ==
    /\ op = "ask_stream"
    /\ status = 500
    /\ RaisedAtStatus
    /\ lines # <<>>
    /\ posts = 1

\* The streaming call is over: returned, raised or cancelled.
StreamOver == op = "ask_stream" /\ pc \in {"done", "raised", "cancelled"}

\* C13: the streaming response is acquired once, by the post, and is closed
\* on every way out of ask_stream: return at the sentinel or at exhaustion,
\* an exception (status failure, a failure of the transport between lines,
\* an exception of the extraction) and the caller's cancellation at a yield;
\* the cancelling step and every step after it read no line and yield no
\* fragment.
C13_ConnectionReleased ==
    [][/\ StreamOver' => conn' = (IF status' = 0 THEN "none" ELSE "closed")
       /\ conn' = "open" => (conn = "open" \/ pc = "posted")
       /\ conn = "closed" => conn' = "closed"
       /\ pc' = "cancelled" => (pc = "yield" /\ pos' = pos /\ out' = out)
       /\ pc = "cancelled" => (pos' = pos /\ out' = out)]_vars

\* C13 witness: the caller cancelled after the first fragment with a line
\* left unread, and the response is closed.
C13_Witness ==
    /\ pc = "cancelled"
    /\ conn = "closed"
    /\ Len(out) = 1
    /\ pos < Len(lines)

\* C16: a fragment yielded for a line that is not JSON is never empty: a line
\* of whitespace only, and a line that is "data:" followed by nothing but
\* whitespace, yield no fragment.
C16_PassThroughNonEmpty ==
    [][NonJsonNext =>
          IF StripLine(Raw) = ""
          THEN out' = out
          ELSE out' = Append(out, StripLine(Raw))]_vars

\* Every field of cfg that holds a string holds a non-blank one.
NonBlank(cfg) == \A f \in DOMAIN cfg : cfg[f] # None => Strip(cfg[f].v) # ""

\* C14: load_config called after save_config(cfg) returns cfg, field for
\* field, for every cfg whose string fields are non-blank, values with
\* double quotes, backslashes and control characters included; a field that
\* is None loads as None.
C14_SaveLoadRoundTrip ==
    [][(last = "save_config" /\ NonBlank(saved) /\ last' = "load_config") =>
          ret' = Loaded(saved)]_vars

\* kwargs passes a value other than None for the field f.
Passes(kwargs, f) == \E i \in 1..Len(kwargs) : kwargs[i].key = f /\ kwargs[i].val # None

\* The value kwargs passes for f.
PassedValue(kwargs, f) == kwargs[CHOOSE i \in 1..Len(kwargs) : kwargs[i].key = f].val.v

\* C15: update_config on a valid file changes only the fields it is given:
\* a field passed with a value other than None holds that value afterwards
\* (none when the value is empty or blank), every other field holds what it
\* held, and a key that is not one of the four is ignored.
C15_UpdateChangesOnlyGiven ==
    [][\A kwargs \in Kwargs :
          (~Malformed(file) /\ UpdateConfig(kwargs)) =>
              \A i \in 1..Len(Fields) :
                  LET f == Fields[i]
                  IN  LoadedConfig(file')[f] =
                          IF Passes(kwargs, f)
                          THEN (IF Strip(PassedValue(kwargs, f)) = "" THEN None
                                ELSE Some(PassedValue(kwargs, f)))
                          ELSE LoadedConfig(file)[f]]_vars

\* The texts a reader may find: that of the file found at the start and
\* that of each writer's save_config.
WholeTexts == {OldText} \cup {WriterText(p) : p \in Writers}

\* The text the destination's name names (None when it names no file).
DestText == IF dir[CONFIG_FILE] = 0 THEN None ELSE Some(disk[dir[CONFIG_FILE]])

\* The destination, when there is one, holds a whole text.
DestWhole == DestText # None => DestText.v \in WholeTexts

\* What the reader has read of a file, once it has read it, is a whole text.
ReadWhole == (rpc \in {"read", "done"} /\ rino # 0) => rbuf \in WholeTexts

\* The p-th writer's save has just ended with the exception of os.replace.
ReplaceFailureEnds(p) == spc[p] = "unlinking" /\ spc'[p] = "replace_failed"

\* A step keeps the destination whole and the reader's text whole; only
\* os.replace changes what the destination holds, to the whole text of the
\* writer; a save that fails, in writing or in replacing, leaves the
\* destination as it was.
AtomicStep ==
    /\ DestWhole'
    /\ ReadWhole'
    /\ \A p \in Writers :
          /\ (spc[p] = "written" /\ spc'[p] = "done") => DestText' = Some(WriterText(p))
          /\ (spc'[p] # spc[p] /\ spc'[p] # "done") => DestText' = DestText

\* C17 as claimed: under every interleaving of two save_config calls and a
\* load_config, and when a save fails, a reader finds at the destination
\* the whole previous text or the whole text of one save; and when
\* os.replace fails the temporary file is removed and the destination is
\* unchanged.
C17_TempAlwaysRemoved ==
    [][/\ AtomicStep
       /\ \A p \in Writers : ReplaceFailureEnds(p) => dir'[TempName(p)] = 0]_vars

\* C17: under every interleaving of two save_config calls and a
\* load_config, and when a save fails, a reader finds at the destination
\* the whole previous text or the whole text of one save; and when
\* os.replace fails the destination is unchanged and the temporary file is
\* removed, or else, os.unlink failing too, nothing in the directory
\* changes.
C17_AtomicWrite ==
    [][/\ AtomicStep
       /\ \A p \in Writers :
             ReplaceFailureEnds(p) => (dir'[TempName(p)] = 0 \/ dir' = dir)]_vars

\* C17 witness: the reader has read the whole old text while the second
\* writer has written a part of its text and the first writer's os.replace
\* has failed and its temporary file is removed.
C17_Witness ==
    /\ rpc = "read"
    /\ rbuf = OldText
    /\ spc[2] = "partial"
    /\ disk[TempInode(2)] # WriterText(2)
    /\ spc[1] = "replace_failed"
    /\ dir[TempName(1)] = 0
    /\ DestText = Some(OldText)

====
